---------------------------- MODULE Spec2Model ----------------------------
(***************************************************************************)
(* Model of the compile service of server.js: the POST /compile handler,   *)
(* the toolchain invoker runArduinoCli, the board registry and the two     *)
(* diagnostics extractors.  Texts are strings, handled character by        *)
(* character with Len, SubSeq and \o.                                      *)
(***************************************************************************)
EXTENDS Integers, Sequences, FiniteSets, TLC

VARIABLES
    pc,         \* per request: "idle", "compiling" (suspended at the await), "done"
    req,        \* per request: the parsed JSON body { code, fqbn }
    buildId,    \* per request: the uuid of its workspace, "" before one is drawn
    child,      \* per request: the execFile subprocess
    res,        \* per request: the responses sent, in order
    log,        \* per request: the filesystem, process and response calls made, in order
    dirs,       \* the directories on disk
    files,      \* the files on disk, as records [path, data]
    usedIds,    \* the uuids drawn so far
    cliExists,  \* whether the arduino-cli binary is on disk
    cfgExists,  \* whether .arduino-cli.yaml is on disk
    textLines,  \* the lines of a text handed to the extractors on their own
    errorMessage,   \* what extractErrorMessage returned for it, Undefined before the call
    sizeInfo    \* what parseSizeInfo returned for it, Undefined before the call

extractorVars == <<textLines, errorMessage, sizeInfo>>

vars ==
    <<pc, req, buildId, child, res, log, dirs, files, usedIds, cliExists, cfgExists,
      textLines, errorMessage, sizeInfo>>

---------------------------------------------------------------------------
(* JavaScript values and strings *)

Undefined == [t |-> "undefined"]

JStr(s) == [t |-> "string", v |-> s]

JNum(n) == [t |-> "number", v |-> n]

JNull == [t |-> "null"]

JObject == [t |-> "object"]

\* ToBoolean that takes every string, the empty one too, for true
TruthyEmptyString(x) ==
    CASE x.t = "string" -> TRUE
      [] x.t = "number" -> x.v # 0
      [] x.t = "object" -> TRUE
      [] OTHER -> FALSE

\* ToBoolean, as applied by !x and by x || y
Truthy(x) ==
    CASE x.t = "string" -> x.v # ""
      [] x.t = "number" -> x.v # 0
      [] x.t = "object" -> TRUE
      [] OTHER -> FALSE

SetMin(S) == CHOOSE m \in S : \A k \in S : m <= k

SetMax(S) == CHOOSE m \in S : \A k \in S : m >= k

\* String.prototype.substring(a, b): 0-based, half-open, clamped to the string
Substring(s, a, b) ==
    LET lo == IF a < 0 THEN 0 ELSE IF a > Len(s) THEN Len(s) ELSE a
        hi == IF b < 0 THEN 0 ELSE IF b > Len(s) THEN Len(s) ELSE b
    IN  IF hi <= lo THEN "" ELSE SubSeq(s, lo + 1, hi)

\* the character at 1-based position i, "" outside the string
CharAt(s, i) == IF 1 <= i /\ i <= Len(s) THEN SubSeq(s, i, i) ELSE ""

\* String.prototype.slice(0, n) for n >= 0
Slice(s, n) == Substring(s, 0, n)

\* whether sub occurs in s at 1-based position i
StartsAt(s, sub, i) ==
    /\ 1 <= i
    /\ i + Len(sub) - 1 <= Len(s)
    /\ SubSeq(s, i, i + Len(sub) - 1) = sub

\* String.prototype.includes
Includes(s, sub) == \E i \in 1..(Len(s) + 1) : StartsAt(s, sub, i)

WhiteSpace == {" ", "\n", "\t", "\r"}

\* String.prototype.trim
Trim(s) ==
    LET keep == {i \in 1..Len(s) : CharAt(s, i) \notin WhiteSpace}
    IN  IF keep = {} THEN "" ELSE SubSeq(s, SetMin(keep), SetMax(keep))

\* String.prototype.split with a one-character separator
RECURSIVE Split(_, _)
Split(s, sep) ==
    LET at == {i \in 1..Len(s) : CharAt(s, i) = sep}
    IN  IF at = {} THEN <<s>>
        ELSE <<Substring(s, 0, SetMin(at) - 1)>>
                 \o Split(Substring(s, SetMin(at), Len(s)), sep)

\* Array.prototype.join
RECURSIVE Join(_, _)
Join(parts, sep) ==
    IF Len(parts) = 0 THEN ""
    ELSE IF Len(parts) = 1 THEN parts[1]
    ELSE parts[1] \o sep \o Join(Tail(parts), sep)

Digits == {"0", "1", "2", "3", "4", "5", "6", "7", "8", "9"}

DigitValue(c) ==
    CASE c = "0" -> 0 [] c = "1" -> 1 [] c = "2" -> 2 [] c = "3" -> 3
      [] c = "4" -> 4 [] c = "5" -> 5 [] c = "6" -> 6 [] c = "7" -> 7
      [] c = "8" -> 8 [] c = "9" -> 9

\* parseInt(s, 10) of a non-empty string of decimal digits
RECURSIVE ParseInt(_)
ParseInt(s) ==
    IF Len(s) = 1 THEN DigitValue(s)
    ELSE 10 * ParseInt(Substring(s, 0, Len(s) - 1)) + DigitValue(CharAt(s, Len(s)))

\* path.join of two already normalised segments
PathJoin(a, b) == a \o "/" \o b

---------------------------------------------------------------------------
(* The board registry *)

\* the object literal, its own keys in insertion order
SUPPORTED_BOARDS ==
    << [fqbn |-> "arduino:avr:uno", name |-> "Arduino Uno", core |-> "arduino:avr"],
       [fqbn |-> "arduino:avr:nano", name |-> "Arduino Nano", core |-> "arduino:avr"],
       [fqbn |-> "arduino:avr:nano:cpu=atmega328", name |-> "Arduino Nano",
        core |-> "arduino:avr"],
       [fqbn |-> "arduino:avr:nano:cpu=atmega328old",
        name |-> "Arduino Nano (Old Bootloader)", core |-> "arduino:avr"],
       [fqbn |-> "arduino:avr:mega:cpu=atmega2560", name |-> "Arduino Mega 2560",
        core |-> "arduino:avr"],
       [fqbn |-> "arduino:avr:leonardo", name |-> "Arduino Leonardo",
        core |-> "arduino:avr"],
       [fqbn |-> "arduino:avr:micro", name |-> "Arduino Micro", core |-> "arduino:avr"] >>

\* Object.keys(SUPPORTED_BOARDS)
ObjectKeys(obj) == [i \in 1..Len(obj) |-> obj[i].fqbn]

OwnKeys(obj) == {obj[i].fqbn : i \in 1..Len(obj)}

\* the properties an object literal inherits from Object.prototype
ObjectPrototypeKeys ==
    {"constructor", "__proto__", "hasOwnProperty", "isPrototypeOf",
     "propertyIsEnumerable", "toLocaleString", "toString", "valueOf",
     "__defineGetter__", "__defineSetter__", "__lookupGetter__", "__lookupSetter__"}

\* SUPPORTED_BOARDS[fqbn]: a property read, which follows the prototype chain
Get(obj, key) ==
    IF key \in OwnKeys(obj) THEN JObject
    ELSE IF key \in ObjectPrototypeKeys THEN JObject
    ELSE Undefined

---------------------------------------------------------------------------
(* The diagnostics extractors *)

ErrorMarkers == {"error:", "Error:", "undefined reference", "fatal error"}

MaxErrorLines == 8

MaxErrorChars == 800

IsErrorLine(line) == \E m \in ErrorMarkers : Includes(line, m)

\* an extractor that keeps the last lines that match instead of the first
extractErrorMessageTail(output) ==
    IF output = "" THEN "Unknown compilation error"
    ELSE LET lines == Split(output, "\n")
             errorLines == SelectSeq(lines, IsErrorLine)
         IN  IF Len(errorLines) > 0
             THEN Join(SubSeq(errorLines,
                              IF Len(errorLines) < MaxErrorLines
                              THEN 1 ELSE Len(errorLines) - MaxErrorLines + 1,
                              Len(errorLines)), "\n")
             ELSE Slice(output, MaxErrorChars)

\* extractErrorMessage(output), output a string
extractErrorMessage(output) ==
    IF output = "" THEN "Unknown compilation error"
    ELSE LET lines == Split(output, "\n")
             errorLines == SelectSeq(lines, IsErrorLine)
         IN  IF Len(errorLines) > 0
             THEN Join(SubSeq(errorLines, 1,
                              IF Len(errorLines) < MaxErrorLines
                              THEN Len(errorLines) ELSE MaxErrorLines), "\n")
             ELSE Slice(output, MaxErrorChars)

\* the end of the run of digits that starts at position i (i - 1 when there is none)
RECURSIVE DigitRunEnd(_, _)
DigitRunEnd(s, i) ==
    IF CharAt(s, i) \in Digits THEN DigitRunEnd(s, i + 1) ELSE i - 1

\* whether /<phrase>(\d+) bytes/ matches at position p
MatchesAt(s, phrase, p) ==
    /\ StartsAt(s, phrase, p)
    /\ LET d == p + Len(phrase)
           e == DigitRunEnd(s, d)
       IN  e >= d /\ StartsAt(s, " bytes", e + 1)

\* output.match(/<phrase>(\d+) bytes/): capture group 1 of the leftmost match, or null
Match(s, phrase) ==
    LET at == {p \in 1..Len(s) : MatchesAt(s, phrase, p)}
    IN  IF at = {} THEN JNull
        ELSE LET d == SetMin(at) + Len(phrase)
             IN  JStr(Substring(s, d - 1, DigitRunEnd(s, d)))

\* a parser that reports sizes only when both phrases are there
parseSizeInfoBoth(output) ==
    LET flashMatch == Match(output, "Sketch uses ")
        ramMatch == Match(output, "Global variables use ")
    IN  IF flashMatch.t # "null" /\ ramMatch.t # "null"
        THEN [flash |-> JNum(ParseInt(flashMatch.v)), ram |-> JNum(ParseInt(ramMatch.v))]
        ELSE [flash |-> JNull, ram |-> JNull]

\* parseSizeInfo(output)
parseSizeInfo(output) ==
    LET flashMatch == Match(output, "Sketch uses ")
        ramMatch == Match(output, "Global variables use ")
    IN  [flash |-> IF flashMatch.t # "null" THEN JNum(ParseInt(flashMatch.v)) ELSE JNull,
         ram |-> IF ramMatch.t # "null" THEN JNum(ParseInt(ramMatch.v)) ELSE JNull]

---------------------------------------------------------------------------
(* The inputs: request bodies, toolchain behaviours and I/O faults *)

Codes == {Undefined, JStr(""), JStr("void setup(){} void loop(){}")}

Fqbns ==
    {Undefined, JStr(""), JStr("arduino:avr:uno"), JStr("arduino:avr:nano:cpu"),
     JStr("constructor")}

SizeReport == "Sketch uses 1234 bytes (3%)\nGlobal variables use 56 bytes (2%)\n"

CompilerErrors == "sketch.ino:2:3: error: 'foo' was not declared\nexit status 1\n"

HexData == ":0400000000C0FFEE8F\n:00000001FF\n"

\* how a run of the toolchain ends by itself: what it printed, its exit code and the
\* name under which it left the image in the output directory ("" for no image)
ToolchainRuns ==
    {[stdout |-> SizeReport, stderr |-> "", code |-> 0, artifact |-> "sketch.ino.hex"],
     [stdout |-> "", stderr |-> "", code |-> 0, artifact |-> "sketch.ino.hex"],
     [stdout |-> SizeReport, stderr |-> "", code |-> 0,
      artifact |-> "sketch.ino.with_bootloader.hex"],
     [stdout |-> "", stderr |-> "", code |-> 0, artifact |-> ""],
     [stdout |-> "", stderr |-> CompilerErrors, code |-> 1, artifact |-> ""],
     [stdout |-> "", stderr |-> "Platform not installed\n", code |-> 1, artifact |-> ""],
     [stdout |-> "", stderr |-> "", code |-> 1, artifact |-> ""]}

\* what the toolchain had printed when the timer fired
PartialOutputs ==
    {[stdout |-> "", stderr |-> ""], [stdout |-> "", stderr |-> CompilerErrors]}

\* the call of the try block that throws, "" for none
IoFaults == {"", "mkdirSketch", "mkdirOutput", "writeFile"}

IoMessage(syscall, path) == "EACCES: permission denied, " \o syscall \o " '" \o path \o "'"

---------------------------------------------------------------------------
(* Paths, the filesystem and the subprocess *)

\* the requests the server handles, each by one run of the handler
Requests == {"r1", "r2"}

\* how many values uuidv4() has to draw from
MaxBuildIds == 2

\* the values uuidv4() returns; a value is never returned twice
BuildIds == {"b" \o ToString(i) : i \in 1..MaxBuildIds}

\* __dirname
Dirname == "/app"

CLI == PathJoin(PathJoin(Dirname, "bin"), "arduino-cli")

CFG == PathJoin(Dirname, ".arduino-cli.yaml")

\* the default of runArduinoCli's timeoutMs option
timeoutMs == 120000

\* a workspace path that leaves the uuid out: every request builds in the same directory
buildDirShared(id) == PathJoin(PathJoin("/tmp", "arduino-builds"), "build")

buildDir(id) == PathJoin(PathJoin("/tmp", "arduino-builds"), id)

sketchDir(id) == PathJoin(buildDir(id), "sketch")

sketchFile(id) == PathJoin(sketchDir(id), "sketch.ino")

outputDir(id) == PathJoin(buildDir(id), "output")

hexFile(id) == PathJoin(outputDir(id), "sketch.ino.hex")

\* a path and the directories above it
Ancestors(p) ==
    {Substring(p, 0, i - 1) : i \in {j \in 2..Len(p) : CharAt(p, j) = "/"}} \cup {p}

\* fs.mkdirSync(p, { recursive: true })
MkdirSync(d, p) == d \cup Ancestors(p)

\* fs.writeFileSync(path, data, "utf-8")
WriteFileSync(f, path, data) ==
    {x \in f : x.path # path} \cup {[path |-> path, data |-> data]}

\* fs.existsSync(p)
ExistsSync(d, f, p) == p \in d \/ \E x \in f : x.path = p

\* fs.readFileSync(path, "utf-8")
ReadFileSync(f, path) == (CHOOSE x \in f : x.path = path).data

\* whether p is root or lies below it
Under(p, root) == p = root \/ StartsAt(p, root \o "/", 1)

\* fs.rmSync(root, { recursive: true, force: true }), when it does not throw
RmSyncDirs(d, root) == {p \in d : ~Under(p, root)}

RmSyncFiles(f, root) == {x \in f : ~Under(x.path, root)}

\* the argument vector the handler passes to runArduinoCli
CompileArgs(fqbn, id) ==
    <<"compile", "--fqbn", fqbn, "--output-dir", outputDir(id), sketchDir(id)>>

\* finalArgs that name the configuration file whether or not it is on disk
FinalArgsAlways(args, cfg) == <<"--config-file", CFG>> \o args

\* finalArgs of runArduinoCli
FinalArgs(args, cfg) ==
    IF cfg THEN <<"--config-file", CFG>> \o args ELSE args

\* an execFile call without the timeout option: no timer is ever armed
TimerNeverArmed(timeout) == FALSE

\* execFile arms its kill timer when options.timeout > 0
TimerArmed(timeout) == timeout > 0

NoChild ==
    [state |-> "none", file |-> "", argv |-> <<>>, shell |-> FALSE, stdout |-> "",
     stderr |-> "", code |-> JNull, killed |-> FALSE, signal |-> JNull, image |-> ""]

\* the Error runArduinoCli rejects with when the binary is missing
NotFoundError ==
    [message |-> "arduino-cli no existe en " \o CLI
                    \o ". Revisa tu Build Command en Render.",
     code |-> Undefined, killed |-> FALSE, signal |-> Undefined, combined |-> Undefined]

\* `${stdout || ""}\n${stderr || ""}`.trim()
Combined(stdout, stderr) == Trim(stdout \o "\n" \o stderr)

\* the message of the error execFile passes to its callback for a failed subprocess
ExecMessage(file, argv, stderr) ==
    "Command failed: " \o Join(<<file>> \o argv, " ") \o "\n" \o stderr

\* what a subprocess of the model can have printed when its callback runs
Printed ==
    {[stdout |-> t.stdout, stderr |-> t.stderr] : t \in ToolchainRuns} \cup PartialOutputs

\* the fqbn values of the model that pass the handler's validation
AcceptedFqbns ==
    {f.v : f \in {x \in Fqbns : Truthy(x) /\ Truthy(Get(SUPPORTED_BOARDS, x.v))}}

\* the argument vectors execFile can be given
ArgVectors ==
    {FinalArgs(CompileArgs(f, id), cfg) :
        f \in AcceptedFqbns, id \in BuildIds, cfg \in BOOLEAN}

\* Combined and ExecMessage, evaluated once for every subprocess of the model
CombinedOutput == [o \in Printed |-> Combined(o.stdout, o.stderr)]

ExecMessages ==
    [a \in ArgVectors, e \in {o.stderr : o \in Printed} |-> ExecMessage(CLI, a, e)]

\* the error execFile passes to its callback for a subprocess c that failed,
\* with the combined output attached
ExecError(c) ==
    [message |-> ExecMessages[c.argv, c.stderr],
     code |-> c.code, killed |-> c.killed, signal |-> c.signal,
     combined |-> JStr(CombinedOutput[[stdout |-> c.stdout, stderr |-> c.stderr]])]

\* x ?? y: the fallback is taken for null and undefined only, not for ""
OrNullish(x, y) == IF x.t \in {"undefined", "null"} THEN y ELSE x

\* x || y
Or(x, y) == IF Truthy(x) THEN x ELSE y

---------------------------------------------------------------------------
(* The responses of POST /compile *)

BadRequest(msg) == [status |-> 400, body |-> [success |-> FALSE, error |-> msg]]

UnsupportedBoard(fqbn) ==
    BadRequest("Unsupported board: " \o fqbn \o ". Supported: "
                   \o Join(ObjectKeys(SUPPORTED_BOARDS), ", "))

\* the text the inner catch reports: compileError.combined || compileError.message
CompileErrorText(err) == Or(err.combined, JStr(err.message)).v

\* the texts the model's handler can pass to the extractors, and the extractors
\* evaluated once for each of them
ErrorTexts ==
    {CombinedOutput[o] : o \in Printed}
        \cup {ExecMessages[k] : k \in DOMAIN ExecMessages}
        \cup {NotFoundError.message}

ErrorSummary == [x \in ErrorTexts |-> extractErrorMessage(x)]

SizeInfo == [x \in {CombinedOutput[o] : o \in Printed} |-> parseSizeInfo(x)]

\* an inner catch that rethrows to the outer catch: status 500
CompileFailedRethrown(err) ==
    [status |-> 500, body |-> [success |-> FALSE, error |-> err.message]]

\* the inner catch: res.json, so status 200
CompileFailed(err) ==
    [status |-> 200,
     body |-> [success |-> FALSE,
               error |-> ErrorSummary[CompileErrorText(err)],
               output |-> CompileErrorText(err)]]

HexNotFound == "Compilation succeeded but HEX file not found"

\* a missing image reported the way a compile error is
ArtifactMissingAsCompileError(output) ==
    [status |-> 200,
     body |-> [success |-> FALSE, error |-> extractErrorMessage(output), output |-> output]]

ArtifactMissing(output) ==
    [status |-> 200, body |-> [success |-> FALSE, error |-> HexNotFound, output |-> output]]

\* a success response whose size is parsed from the image instead of the output
SucceededSizeOfHex(hexContent, output) ==
    [status |-> 200,
     body |-> [success |-> TRUE, hex |-> hexContent, output |-> output,
               size |-> parseSizeInfo(hexContent)]]

Succeeded(hexContent, output) ==
    [status |-> 200,
     body |-> [success |-> TRUE, hex |-> hexContent, output |-> output,
               size |-> SizeInfo[output]]]

\* an outer catch that answers with res.json alone: status 200
InternalErrorAsResult(msg) == [status |-> 200, body |-> [success |-> FALSE, error |-> msg]]

\* the outer catch
InternalError(msg) == [status |-> 500, body |-> [success |-> FALSE, error |-> msg]]

---------------------------------------------------------------------------
(* The state machine *)

Init ==
    /\ pc = [r \in Requests |-> "idle"]
    /\ req = [r \in Requests |-> [code |-> Undefined, fqbn |-> Undefined]]
    /\ buildId = [r \in Requests |-> ""]
    /\ child = [r \in Requests |-> NoChild]
    /\ res = [r \in Requests |-> <<>>]
    /\ log = [r \in Requests |-> <<>>]
    /\ dirs = {"/tmp"}
    /\ files = {}
    /\ usedIds = {}
    /\ cliExists \in BOOLEAN
    /\ cfgExists \in BOOLEAN
    /\ textLines = <<>>
    /\ errorMessage = Undefined
    /\ sizeInfo = Undefined

\* a return before the try block: one response, no workspace, no finally
Reject(r, body, response) ==
    /\ pc' = [pc EXCEPT ![r] = "done"]
    /\ req' = [req EXCEPT ![r] = body]
    /\ res' = [res EXCEPT ![r] = Append(@, response)]
    /\ log' = [log EXCEPT ![r] = Append(@, "json")]
    /\ UNCHANGED <<buildId, child, dirs, files, usedIds, cliExists, cfgExists>>
    /\ UNCHANGED extractorVars

\* a handler without the finally block: the workspace is left on disk
FinallyDirsSkipped(d, id, rmOk) == d

\* the finally block on the disk d, f: rmSync of the workspace, its throw caught and logged
FinallyDirs(d, id, rmOk) == IF rmOk THEN RmSyncDirs(d, buildDir(id)) ELSE d

FinallyFiles(f, id, rmOk) == IF rmOk THEN RmSyncFiles(f, buildDir(id)) ELSE f

\* a finally block without the inner try/catch: the throw of rmSync leaves the handler
FinallyLogUncaught(rmOk) == IF rmOk THEN <<"rmSync">> ELSE <<"rmSync", "throw">>

FinallyLog(rmOk) == IF rmOk THEN <<"rmSync">> ELSE <<"rmSync", "throw", "console.error">>

\* a response sent without return: the handler goes on and answers a second time
ReturnTwice(r, id, calls, response, d, f, rmOk) ==
    /\ pc' = [pc EXCEPT ![r] = "done"]
    /\ res' = [res EXCEPT ![r] = @ \o <<response, response>>]
    /\ log' = [log EXCEPT ![r] = @ \o calls \o <<"json", "json">> \o FinallyLog(rmOk)]
    /\ dirs' = FinallyDirs(d, id, rmOk)
    /\ files' = FinallyFiles(f, id, rmOk)

\* a return inside the try block: the calls made so far, the response, then the finally block
Return(r, id, calls, response, d, f, rmOk) ==
    /\ pc' = [pc EXCEPT ![r] = "done"]
    /\ res' = [res EXCEPT ![r] = Append(@, response)]
    /\ log' = [log EXCEPT ![r] = @ \o calls \o <<"json">> \o FinallyLog(rmOk)]
    /\ dirs' = FinallyDirs(d, id, rmOk)
    /\ files' = FinallyFiles(f, id, rmOk)

\* the handler from the try block to the await of runArduinoCli
Prepare(r, body, id, fault, rmOk) ==
    LET d1 == MkdirSync(dirs, sketchDir(id))
        d2 == MkdirSync(d1, outputDir(id))
        f1 == WriteFileSync(files, sketchFile(id), body.code.v)
    IN  /\ req' = [req EXCEPT ![r] = body]
        /\ buildId' = [buildId EXCEPT ![r] = id]
        /\ usedIds' = usedIds \cup {id}
        /\ UNCHANGED <<cliExists, cfgExists>>
        /\ UNCHANGED extractorVars
        /\ CASE fault = "mkdirSketch" ->
                  /\ Return(r, id, <<"mkdirSync", "throw", "console.error">>,
                            InternalError(IoMessage("mkdir", sketchDir(id))), dirs, files, rmOk)
                  /\ UNCHANGED child
             [] fault = "mkdirOutput" ->
                  /\ Return(r, id, <<"mkdirSync", "mkdirSync", "throw", "console.error">>,
                            InternalError(IoMessage("mkdir", outputDir(id))), d1, files, rmOk)
                  /\ UNCHANGED child
             [] fault = "writeFile" ->
                  /\ Return(r, id, <<"mkdirSync", "mkdirSync", "writeFileSync", "throw",
                                     "console.error">>,
                            InternalError(IoMessage("open", sketchFile(id))), d2, files, rmOk)
                  /\ UNCHANGED child
             [] fault = "" /\ ~cliExists ->
                  /\ Return(r, id, <<"mkdirSync", "mkdirSync", "writeFileSync", "runArduinoCli",
                                     "throw">>,
                            CompileFailed(NotFoundError), d2, f1, rmOk)
                  /\ UNCHANGED child
             [] fault = "" /\ cliExists ->
                  /\ child' = [child EXCEPT ![r] =
                                  [NoChild EXCEPT !.state = "running", !.file = CLI,
                                      !.argv = FinalArgs(CompileArgs(body.fqbn.v, id),
                                                         cfgExists)]]
                  /\ pc' = [pc EXCEPT ![r] = "compiling"]
                  /\ log' = [log EXCEPT ![r] = @ \o <<"mkdirSync", "mkdirSync",
                                                  "writeFileSync", "runArduinoCli",
                                                  "execFile">>]
                  /\ dirs' = d2
                  /\ files' = f1
                  /\ UNCHANGED res

\* app.post("/compile"): the handler from the request to its first return or await
PostCompile(r) ==
    /\ pc[r] = "idle"
    /\ \E code \in Codes, fqbn \in Fqbns :
         LET body == [code |-> code, fqbn |-> fqbn]
         IN  IF ~Truthy(code)
             THEN Reject(r, body, BadRequest("Missing code parameter"))
             ELSE IF ~Truthy(fqbn)
             THEN Reject(r, body, BadRequest("Missing fqbn parameter"))
             ELSE IF ~Truthy(Get(SUPPORTED_BOARDS, fqbn.v))
             THEN Reject(r, body, UnsupportedBoard(fqbn.v))
             ELSE \E id \in BuildIds \ usedIds, fault \in IoFaults, rmOk \in BOOLEAN :
                      Prepare(r, body, id, fault, rmOk)

\* the toolchain ends by itself: its output, its exit code, the image it leaves
ChildExit(r) ==
    /\ pc[r] = "compiling"
    /\ child[r].state = "running"
    /\ \E t \in ToolchainRuns :
         /\ child' = [child EXCEPT ![r].state = "exited", ![r].stdout = t.stdout,
                                   ![r].stderr = t.stderr, ![r].code = JNum(t.code),
                                   ![r].image = t.artifact]
         /\ files' = IF t.artifact = "" THEN files
                     ELSE WriteFileSync(files,
                              PathJoin(outputDir(buildId[r]), t.artifact), HexData)
    /\ UNCHANGED <<pc, req, buildId, res, log, dirs, usedIds, cliExists, cfgExists>>
    /\ UNCHANGED extractorVars

\* execFile's timer fires first: the subprocess is sent SIGTERM, its output so far is kept
TimeoutFires(r) ==
    /\ pc[r] = "compiling"
    /\ child[r].state = "running"
    /\ TimerArmed(timeoutMs)
    /\ \E o \in PartialOutputs :
         child' = [child EXCEPT ![r].state = "killed", ![r].stdout = o.stdout,
                                ![r].stderr = o.stderr, ![r].killed = TRUE,
                                ![r].signal = JStr("SIGTERM")]
    /\ UNCHANGED <<pc, req, buildId, res, log, dirs, files, usedIds, cliExists, cfgExists>>
    /\ UNCHANGED extractorVars

\* execFile's callback and the rest of the handler, from the await to the end
ExecFileCallback(r) ==
    /\ pc[r] = "compiling"
    /\ child[r].state \in {"exited", "killed"}
    /\ LET c == child[r]
           id == buildId[r]
           output == CombinedOutput[[stdout |-> c.stdout, stderr |-> c.stderr]]
           failed == c.killed \/ c.code.v # 0
           found == ExistsSync(dirs, files, hexFile(id))
           calls == IF failed THEN <<"throw">> ELSE <<"existsSync">>
           response == IF failed THEN CompileFailed(ExecError(c))
                       ELSE ArtifactMissing(output)
       IN  IF failed \/ ~found
           THEN \E rmOk \in BOOLEAN :
                    Return(r, id, calls, response, dirs, files, rmOk)
           ELSE \E readOk \in BOOLEAN, rmOk \in BOOLEAN :
                    Return(r, id,
                           IF readOk THEN <<"existsSync", "readFileSync">>
                           ELSE <<"existsSync", "readFileSync", "throw", "console.error">>,
                           IF readOk
                           THEN Succeeded(ReadFileSync(files, hexFile(id)), output)
                           ELSE InternalError(IoMessage("read", hexFile(id))),
                           dirs, files, rmOk)
    /\ child' = [child EXCEPT ![r].state = "closed"]
    /\ UNCHANGED <<req, buildId, usedIds, cliExists, cfgExists>>
    /\ UNCHANGED extractorVars

Next ==
    \E r \in Requests :
        \/ PostCompile(r)
        \/ ChildExit(r)
        \/ TimeoutFires(r)
        \/ ExecFileCallback(r)

Spec == Init /\ [][Next]_vars

\* the timer and the callback are the event loop's; the toolchain need not end by itself
FairSpec ==
    Spec /\ \A r \in Requests : WF_vars(TimeoutFires(r)) /\ WF_vars(ExecFileCallback(r))

---------------------------------------------------------------------------
(* The extractors on their own: a text is given, and each extractor is called on it *)

\* how many lines a compiler text has at most
MaxLines == 9

\* how many lines a size report has at most
MaxSizeLines == 2

Markers == <<"error:", "Error:", "undefined reference", "fatal error">>

\* what a compiler prints that is close to a marker and is none
Decoys == <<"ERROR:", "error :", "warning:", "Undefined Reference">>

Filler ==
    " in expansion of macro 'digitalWrite', required from here; the candidates are listed below"

\* line i of a compiler text: one with a marker in it, or a longer one with none
MarkedLine(i) ==
    [line |-> "sketch.ino:" \o ToString(i) \o ":5: " \o Markers[(i % 4) + 1] \o " 'foo'",
     marked |-> TRUE, flash |-> JNull, ram |-> JNull]

PlainLine(i) ==
    [line |-> "sketch.ino:" \o ToString(i) \o ":5: " \o Decoys[(i % 4) + 1] \o Filler,
     marked |-> FALSE, flash |-> JNull, ram |-> JNull]

\* the compiler texts: every arrangement of marked and plain lines, the empty text too
CompilerTexts ==
    {[i \in DOMAIN shape |-> IF shape[i] THEN MarkedLine(i) ELSE PlainLine(i)] :
        shape \in UNION {[1..n -> BOOLEAN] : n \in 0..MaxLines}}

\* the lines of a size report, each with the byte counts it states
SizeLines ==
    {[line |-> "Sketch uses 1234 bytes (3%) of program storage space. Maximum is 32256 bytes.",
      marked |-> FALSE, flash |-> JNum(1234), ram |-> JNull],
     [line |-> "Sketch uses 99 bytes", marked |-> FALSE, flash |-> JNum(99), ram |-> JNull],
     [line |-> "Global variables use 56 bytes (2%) of dynamic memory.",
      marked |-> FALSE, flash |-> JNull, ram |-> JNum(56)],
     [line |-> "Global variables use 7 bytes", marked |-> FALSE, flash |-> JNull,
      ram |-> JNum(7)],
     [line |-> "Sketch uses too much program storage space",
      marked |-> FALSE, flash |-> JNull, ram |-> JNull],
     [line |-> "", marked |-> FALSE, flash |-> JNull, ram |-> JNull]}

SizeTexts == UNION {[1..n -> SizeLines] : n \in 1..MaxSizeLines}

\* the text the lines make
TextOf(ls) == Join([i \in DOMAIN ls |-> ls[i].line], "\n")

ExtractorInit ==
    /\ pc = [r \in Requests |-> "idle"]
    /\ req = [r \in Requests |-> [code |-> Undefined, fqbn |-> Undefined]]
    /\ buildId = [r \in Requests |-> ""]
    /\ child = [r \in Requests |-> NoChild]
    /\ res = [r \in Requests |-> <<>>]
    /\ log = [r \in Requests |-> <<>>]
    /\ dirs = {"/tmp"}
    /\ files = {}
    /\ usedIds = {}
    /\ cliExists = TRUE
    /\ cfgExists = TRUE
    /\ textLines \in CompilerTexts \cup SizeTexts
    /\ errorMessage = Undefined
    /\ sizeInfo = Undefined

\* a call of extractErrorMessage on the text
CallExtractErrorMessage ==
    /\ errorMessage = Undefined
    /\ errorMessage' = JStr(extractErrorMessage(TextOf(textLines)))
    /\ UNCHANGED <<pc, req, buildId, child, res, log, dirs, files, usedIds, cliExists,
                   cfgExists, textLines, sizeInfo>>

\* a call of parseSizeInfo on the text
CallParseSizeInfo ==
    /\ sizeInfo = Undefined
    /\ sizeInfo' = parseSizeInfo(TextOf(textLines))
    /\ UNCHANGED <<pc, req, buildId, child, res, log, dirs, files, usedIds, cliExists,
                   cfgExists, textLines, errorMessage>>

ExtractorNext == CallExtractErrorMessage \/ CallParseSizeInfo

ExtractorSpec == ExtractorInit /\ [][ExtractorNext]_vars

---------------------------------------------------------------------------
(* What the claims speak of *)

Done(r) == pc[r] = "done"

\* the handler of r made this call
Called(r, call) == \E i \in 1..Len(log[r]) : log[r][i] = call

\* the handler of r made this call and it threw
Threw(r, call) ==
    \E i \in 1..(Len(log[r]) - 1) : log[r][i] = call /\ log[r][i + 1] = "throw"

\* r passed the validation of the handler and entered its try block
Validated(r) == Called(r, "mkdirSync")

\* something of r's workspace is on disk
WorkspaceOnDisk(r) ==
    \/ \E p \in dirs : Under(p, buildDir(buildId[r]))
    \/ \E x \in files : Under(x.path, buildDir(buildId[r]))

\* the toolchain of r ran and ended by itself with this exit code
Exited(r, code) ==
    child[r].state = "closed" /\ ~child[r].killed /\ child[r].code = JNum(code)

\* the toolchain of r was killed by the timer
TimedOut(r) == child[r].state = "closed" /\ child[r].killed

CombinedOf(r) == Trim(child[r].stdout \o "\n" \o child[r].stderr)

\* r is suspended at the await of runArduinoCli
InFlight(r) == pc[r] = "compiling"

\* the directories and the files of the workspace named by id that are on disk
TreeDirs(id) == {p \in dirs : Under(p, buildDir(id))}

TreeFiles(id) == {x \in files : Under(x.path, buildDir(id))}

\* the lines of the text given to the extractors that have a marker in them
MarkedLines == SelectSeq(textLines, LAMBDA l : l.marked)

\* the first n elements of a sequence, all of them when it has fewer
FirstN(seq, n) == SubSeq(seq, 1, IF Len(seq) < n THEN Len(seq) ELSE n)

\* the byte count of the first line that states one, null when no line does
FirstFlash ==
    LET at == {i \in DOMAIN textLines : textLines[i].flash # JNull}
    IN  IF at = {} THEN JNull ELSE textLines[SetMin(at)].flash

FirstRam ==
    LET at == {i \in DOMAIN textLines : textLines[i].ram # JNull}
    IN  IF at = {} THEN JNull ELSE textLines[SetMin(at)].ram

\* a field of a response body as a value, Undefined when the body has no such field
HexOf(body) == IF "hex" \in DOMAIN body THEN JStr(body.hex) ELSE Undefined

SizeOf(body) == IF "size" \in DOMAIN body THEN body.size ELSE [flash |-> Undefined, ram |-> Undefined]

\* the toolchain did for r what it did for q
SameToolchainOutcome(r, q) ==
    /\ child[r].state = child[q].state
    /\ child[r].stdout = child[q].stdout /\ child[r].stderr = child[q].stderr
    /\ child[r].code = child[q].code /\ child[r].killed = child[q].killed
    /\ child[r].image = child[q].image

\* a filesystem call of r's handler threw (the removal in the finally block apart)
IoFault(r) ==
    Threw(r, "mkdirSync") \/ Threw(r, "writeFileSync") \/ Threw(r, "readFileSync")

\* the message of the I/O error that r's handler caught
IoErrorOf(r) ==
    LET ws == "/tmp/arduino-builds/" \o buildId[r]
    IN  CASE log[r][2] = "throw" ->
                 "EACCES: permission denied, mkdir '" \o ws \o "/sketch'"
          [] log[r][3] = "throw" ->
                 "EACCES: permission denied, mkdir '" \o ws \o "/output'"
          [] Threw(r, "writeFileSync") ->
                 "EACCES: permission denied, open '" \o ws \o "/sketch/sketch.ino'"
          [] Threw(r, "readFileSync") ->
                 "EACCES: permission denied, read '" \o ws \o "/output/sketch.ino.hex'"

\* the calls r's handler made up to its response, the finally block left out
LogToResponse(r) ==
    LET at == {i \in 1..Len(log[r]) : log[r][i] = "json"}
    IN  IF at = {} THEN log[r] ELSE SubSeq(log[r], 1, SetMin(at))

\* the calls r's handler made after its response
LogAfterResponse(r) == SubSeq(log[r], Len(LogToResponse(r)) + 1, Len(log[r]))

\* the outcomes of the handler that r's calls show
OutcomesOf(r) ==
    {k \in {"Rejected", "CompileFailed", "ArtifactMissing", "Succeeded", "InternalError"} :
        CASE k = "Rejected" -> Done(r) /\ ~Validated(r)
          [] k = "CompileFailed" -> Threw(r, "runArduinoCli") \/ Threw(r, "execFile")
          [] k = "ArtifactMissing" -> Called(r, "existsSync") /\ ~Called(r, "readFileSync")
          [] k = "Succeeded" -> Called(r, "readFileSync") /\ ~Threw(r, "readFileSync")
          [] k = "InternalError" -> IoFault(r)}

\* the outcome that a response tells the caller
OutcomeTold(response) ==
    CASE response.status = 400 -> "Rejected"
      [] response.status = 500 -> "InternalError"
      [] response.body.success -> "Succeeded"
      [] response.body.error = HexNotFound -> "ArtifactMissing"
      [] OTHER -> "CompileFailed"

\* how many times r's handler called res.json
Responses(r) == Cardinality({i \in 1..Len(log[r]) : log[r][i] = "json"})

RegistryList ==
    "arduino:avr:uno, arduino:avr:nano, arduino:avr:nano:cpu=atmega328, "
        \o "arduino:avr:nano:cpu=atmega328old, arduino:avr:mega:cpu=atmega2560, "
        \o "arduino:avr:leonardo, arduino:avr:micro"

---------------------------------------------------------------------------
(* The claims *)

\* C1 as stated: once the handler of a validated request has completed, whichever
\* terminal state it reached, its workspace directory no longer exists on disk.
C1_WorkspaceGone ==
    \A r \in Requests : Done(r) /\ Validated(r) => ~WorkspaceOnDisk(r)

\* C1 amended: once the handler of a validated request has completed, it has called
\* rmSync on its workspace after sending the response, whichever terminal state it
\* reached, and the workspace is gone unless that rmSync threw.
C1_WorkspaceGoneUnlessRmThrew ==
    \A r \in Requests :
        Done(r) /\ Validated(r) =>
            /\ Called(r, "rmSync")
            /\ ~Threw(r, "rmSync") => ~WorkspaceOnDisk(r)

C1_Witness ==
    \E r \in Requests :
        /\ Done(r) /\ Called(r, "execFile") /\ Called(r, "rmSync")
        /\ ~Threw(r, "rmSync") /\ ~WorkspaceOnDisk(r)
        /\ res[r][1].body.success

\* C2: a request whose code is absent or empty is answered 400 "Missing code
\* parameter"; one with code present and fqbn absent is answered 400 "Missing fqbn
\* parameter"; in both cases no workspace is created and the toolchain is not invoked.
C2_MissingParameters ==
    \A r \in Requests :
        Done(r) =>
            /\ req[r].code \in {Undefined, JStr("")} =>
                   /\ res[r] = <<[status |-> 400,
                                  body |-> [success |-> FALSE,
                                            error |-> "Missing code parameter"]]>>
                   /\ log[r] = <<"json">> /\ buildId[r] = "" /\ child[r].state = "none"
            /\ req[r].code \notin {Undefined, JStr("")} /\ req[r].fqbn = Undefined =>
                   /\ res[r] = <<[status |-> 400,
                                  body |-> [success |-> FALSE,
                                            error |-> "Missing fqbn parameter"]]>>
                   /\ log[r] = <<"json">> /\ buildId[r] = "" /\ child[r].state = "none"

C2_Witness ==
    /\ \E r \in Requests :
           /\ Done(r) /\ req[r].code = JStr("") /\ req[r].fqbn = JStr("arduino:avr:uno")
           /\ res[r][1].body.error = "Missing code parameter"
    /\ \E r \in Requests :
           /\ Done(r) /\ req[r].code \notin {Undefined, JStr("")}
           /\ req[r].fqbn = Undefined
           /\ res[r][1].body.error = "Missing fqbn parameter"

\* C3 as stated: a workspace is created and the toolchain is invoked only if fqbn is
\* exactly one of the registry's own keys; every other fqbn is rejected in validation
\* with no workspace created.
C3_OnlyRegistryKeys ==
    \A r \in Requests :
        Called(r, "mkdirSync") \/ Called(r, "execFile") =>
            req[r].fqbn.t = "string" /\ req[r].fqbn.v \in OwnKeys(SUPPORTED_BOARDS)

\* C4 as stated: for every fqbn that is not in the registry, the response is 400
\* "Unsupported board: <fqbn>. Supported: <list>", the list being every registry key
\* once, joined by ", ", in insertion order.
C4_UnsupportedBoard ==
    \A r \in Requests :
        /\ Done(r) /\ Truthy(req[r].code)
        /\ req[r].fqbn.t = "string" /\ req[r].fqbn # JStr("")
        /\ req[r].fqbn.v \notin OwnKeys(SUPPORTED_BOARDS)
        => res[r] = <<[status |-> 400,
                       body |-> [success |-> FALSE,
                                 error |-> "Unsupported board: " \o req[r].fqbn.v
                                               \o ". Supported: " \o RegistryList]]>>

\* C5 as stated: when the toolchain fails with a non-zero exit, the response is 200
\* with success false, error the extracted summary of the combined output and output
\* the combined output.
C5_CompileFailure ==
    \A r \in Requests :
        Done(r) /\ Exited(r, 1) =>
            res[r] = <<[status |-> 200,
                        body |-> [success |-> FALSE,
                                  error |-> extractErrorMessage(CombinedOf(r)),
                                  output |-> CombinedOf(r)]]>>

\* C5 amended: when the toolchain fails with a non-zero exit, the response is 200 with
\* success false, never 500; error is the extracted summary of the combined output
\* and output is the combined output when the combined output is not empty, and
\* both are taken from the failure's message ("Command failed: <command>\n<stderr>")
\* when it is empty.
C5_CompileFailureOrMessage ==
    \A r \in Requests :
        Done(r) /\ Exited(r, 1) =>
            LET message == "Command failed: " \o Join(<<CLI>> \o child[r].argv, " ")
                               \o "\n" \o child[r].stderr
                text == IF CombinedOf(r) # "" THEN CombinedOf(r) ELSE message
            IN  res[r] = <<[status |-> 200,
                            body |-> [success |-> FALSE,
                                      error |-> extractErrorMessage(text),
                                      output |-> text]]>>

C5_Witness ==
    /\ \E r \in Requests :
           /\ Done(r) /\ Exited(r, 1) /\ CombinedOf(r) = ""
           /\ res[r][1].status = 200 /\ Len(res[r][1].body.output) > 0
    /\ \E r \in Requests :
           /\ Done(r) /\ Exited(r, 1)
           /\ res[r][1].body.error
                  = "sketch.ino:2:3: error: 'foo' was not declared"
           /\ res[r][1].body.output
                  = "sketch.ino:2:3: error: 'foo' was not declared\nexit status 1"

\* C6 as stated: when the toolchain binary is missing, a validated request is answered
\* 500 with body { success: false, error: <message> }.
C6_MissingBinaryIs500 ==
    \A r \in Requests :
        Done(r) /\ Called(r, "runArduinoCli") /\ ~cliExists =>
            res[r] = <<[status |-> 500,
                        body |-> [success |-> FALSE,
                                  error |-> "arduino-cli no existe en " \o CLI
                                      \o ". Revisa tu Build Command en Render."]]>>

\* C7: when the toolchain exits successfully and sketch.ino.hex is not directly in the
\* output directory, the response is 200 with success false, error "Compilation
\* succeeded but HEX file not found" and the toolchain's output, and it differs from
\* the response to any failed toolchain invocation.
C7_ArtifactMissing ==
    \A r \in Requests :
        Done(r) /\ Exited(r, 0) /\ child[r].image # "sketch.ino.hex" =>
            /\ res[r] = <<[status |-> 200,
                           body |-> [success |-> FALSE,
                                     error |-> "Compilation succeeded but HEX file not found",
                                     output |-> CombinedOf(r)]]>>
            /\ \A q \in Requests :
                   Done(q) /\ (Threw(q, "execFile") \/ Threw(q, "runArduinoCli")) =>
                       res[q][1].body.error # res[r][1].body.error

C7_Witness ==
    \E r \in Requests, q \in Requests :
        /\ Done(r) /\ Exited(r, 0)
        /\ child[r].image = "sketch.ino.with_bootloader.hex"
        /\ res[r][1].body.error = "Compilation succeeded but HEX file not found"
        /\ Len(res[r][1].body.output) > 0
        /\ Done(q) /\ Exited(q, 1)

\* C8: a response has success true if and only if the request passed validation, the
\* toolchain exited successfully and the image was found and read; the response is
\* then 200 with hex the image's full content, output the combined output and size
\* the size metrics extracted from that output.
C8_SuccessIff ==
    \A r \in Requests :
        Done(r) =>
            LET ok == /\ Validated(r)
                      /\ Exited(r, 0)
                      /\ child[r].image = "sketch.ino.hex"
                      /\ Called(r, "readFileSync") /\ ~Threw(r, "readFileSync")
            IN  /\ Len(res[r]) = 1
                /\ res[r][1].body.success <=> ok
                /\ ok => res[r][1] = [status |-> 200,
                                      body |-> [success |-> TRUE,
                                                hex |-> HexData,
                                                output |-> CombinedOf(r),
                                                size |-> parseSizeInfo(CombinedOf(r))]]

C8_Witness ==
    \E r \in Requests :
        /\ Done(r) /\ res[r][1].body.success
        /\ res[r][1].body.hex = ":0400000000C0FFEE8F\n:00000001FF\n"
        /\ res[r][1].body.size = [flash |-> JNum(1234), ram |-> JNum(56)]
        /\ res[r][1].body.output
               = "Sketch uses 1234 bytes (3%)\nGlobal variables use 56 bytes (2%)"

\* C9: a toolchain invocation that outlives the timeout is killed and its request is
\* answered with success false; no request stays suspended at the await for ever.
C9_TimeoutAnswered ==
    \A r \in Requests :
        /\ [](Done(r) /\ TimedOut(r) =>
                  Len(res[r]) = 1 /\ res[r][1].status = 200 /\ ~res[r][1].body.success)
        /\ (pc[r] = "compiling") ~> Done(r)

C9_Witness ==
    \E r \in Requests : Done(r) /\ TimedOut(r) /\ ~res[r][1].body.success

\* C10 as stated: the outcome of a timed-out invocation is distinguishable by the
\* caller from the outcome of an invocation that failed with a non-zero exit.
C10_TimeoutDistinct ==
    \A r \in Requests, q \in Requests :
        Done(r) /\ TimedOut(r) /\ Done(q) /\ Exited(q, 1) => res[r] # res[q]

\* C11: under every interleaving of requests, each in-flight validated request has
\* exactly one workspace tree on disk (its build directory with the sketch and output
\* directories and its source file), named differently from the workspace of every
\* other request, and the step in which one request completes and cleans up leaves the
\* workspace tree of every other request as it was.
C11_Isolation ==
    /\ [](\A r \in Requests :
              InFlight(r) =>
                  /\ TreeDirs(buildId[r])
                         = {"/tmp/arduino-builds/" \o buildId[r],
                            "/tmp/arduino-builds/" \o buildId[r] \o "/sketch",
                            "/tmp/arduino-builds/" \o buildId[r] \o "/output"}
                  /\ [path |-> "/tmp/arduino-builds/" \o buildId[r] \o "/sketch/sketch.ino",
                      data |-> req[r].code.v] \in files
                  /\ \A q \in Requests \ {r} :
                         buildId[q] # "" => buildDir(buildId[q]) # buildDir(buildId[r]))
    /\ [][\A r \in Requests :
              pc[r] # "done" /\ pc'[r] = "done" =>
                  \A q \in Requests \ {r} :
                      buildId[q] # "" =>
                          /\ TreeDirs(buildId[q])' = TreeDirs(buildId[q])
                          /\ TreeFiles(buildId[q])' = TreeFiles(buildId[q])]_vars

C11_Witness ==
    \E r \in Requests, q \in Requests :
        /\ r # q
        /\ Done(r) /\ Called(r, "execFile") /\ Called(r, "rmSync") /\ ~Threw(r, "rmSync")
        /\ ~WorkspaceOnDisk(r)
        /\ InFlight(q) /\ child[q].state = "exited" /\ child[q].image = "sketch.ino.hex"
        /\ Cardinality(TreeDirs(buildId[q])) = 3 /\ Cardinality(TreeFiles(buildId[q])) = 2

\* C12 as stated: for every text, the empty one too, extractErrorMessage returns the
\* first 8 lines that contain a marker, joined by newline in their order, and the
\* first 800 characters of the text when no line contains a marker.
C12_ErrorSummary ==
    errorMessage # Undefined =>
        errorMessage.v
            = IF Len(MarkedLines) > 0
              THEN TextOf(FirstN(MarkedLines, 8))
              ELSE Substring(TextOf(textLines), 0, 800)

\* C12 amended: for every text that is not empty, extractErrorMessage returns the
\* first 8 lines that contain a marker (all of them if fewer), joined by newline in
\* their order, and the first 800 characters of the text when no line contains a
\* marker; for the empty text it returns "Unknown compilation error".
C12_ErrorSummaryOfNonEmpty ==
    errorMessage # Undefined =>
        errorMessage.v
            = IF TextOf(textLines) = "" THEN "Unknown compilation error"
              ELSE IF Len(MarkedLines) > 0
              THEN TextOf(FirstN(MarkedLines, 8))
              ELSE Substring(TextOf(textLines), 0, 800)

C12_Witness ==
    /\ errorMessage # Undefined
    /\ Len(MarkedLines) = 9 /\ Len(textLines) = 9
    /\ errorMessage.v = TextOf(SubSeq(textLines, 1, 8))

\* C13: for every text, parseSizeInfo returns as flash the integer of the first
\* "Sketch uses <integer> bytes" phrase and as ram the integer of the first "Global
\* variables use <integer> bytes" phrase; each field is null exactly when the text
\* has no such phrase, whatever the other field is.
C13_SizeMetrics ==
    sizeInfo # Undefined => sizeInfo = [flash |-> FirstFlash, ram |-> FirstRam]

C13_Witness ==
    /\ sizeInfo = [flash |-> JNum(99), ram |-> JNull]
    /\ Len(textLines) = 2
    /\ textLines[1].line = "Sketch uses 99 bytes"
    /\ textLines[2].flash = JNum(1234)

\* C14: two requests with the same code and the same valid fqbn use two different
\* workspace directories, and when the toolchain does the same for both (and no
\* filesystem call fails) their responses have the same success, size and hex.
C14_Idempotence ==
    \A r \in Requests, q \in Requests :
        /\ r # q
        /\ Done(r) /\ Done(q) /\ Validated(r) /\ Validated(q) /\ req[r] = req[q]
        =>
            /\ buildDir(buildId[r]) # buildDir(buildId[q])
            /\ SameToolchainOutcome(r, q) /\ ~IoFault(r) /\ ~IoFault(q) =>
                   /\ Len(res[r]) = 1 /\ Len(res[q]) = 1
                   /\ res[r][1].body.success = res[q][1].body.success
                   /\ SizeOf(res[r][1].body) = SizeOf(res[q][1].body)
                   /\ HexOf(res[r][1].body) = HexOf(res[q][1].body)

C14_Witness ==
    \E r \in Requests, q \in Requests :
        /\ r # q
        /\ Done(r) /\ Done(q) /\ req[r] = req[q]
        /\ req[r].fqbn = JStr("arduino:avr:uno")
        /\ buildId[r] # buildId[q] /\ buildId[r] # "" /\ buildId[q] # ""
        /\ res[r][1].body.success /\ res[q][1].body.success
        /\ res[r][1].body.hex = res[q][1].body.hex
        /\ res[r][1].body.size = [flash |-> JNum(1234), ram |-> JNum(56)]
        /\ res[q][1].body.size = [flash |-> JNum(1234), ram |-> JNum(56)]

\* C15 as stated: on every terminal state of a validated request the workspace is
\* destroyed before the response is sent: the handler calls rmSync before it calls
\* res.json, so no response goes out while the workspace is still on disk.
C15_CleanupBeforeResponse ==
    \A r \in Requests :
        Validated(r) /\ Len(res[r]) > 0 =>
            \E j \in 1..Len(log[r]) :
                /\ log[r][j] = "rmSync"
                /\ \A i \in 1..Len(log[r]) : log[r][i] = "json" => j < i

\* C16 as stated: when creating the workspace directories, writing the source file or
\* reading the image fails with an I/O error, the response is 500 with body
\* { success: false, error: <message> }, whatever the toolchain did, and the cleanup
\* runs and removes whatever was created of the workspace.
C16_IoErrorIs500 ==
    \A r \in Requests :
        Done(r) /\ IoFault(r) =>
            /\ res[r] = <<[status |-> 500,
                           body |-> [success |-> FALSE, error |-> IoErrorOf(r)]]>>
            /\ Called(r, "rmSync")
            /\ ~WorkspaceOnDisk(r)

\* C16 amended: when creating the workspace directories, writing the source file or
\* reading the image fails with an I/O error, the response is 500 with body
\* { success: false, error: <message> }, whatever the toolchain did, and the cleanup
\* runs; it removes whatever was created of the workspace unless the removal itself
\* throws.
C16_IoErrorIs500CleanupTried ==
    \A r \in Requests :
        Done(r) /\ IoFault(r) =>
            /\ res[r] = <<[status |-> 500,
                           body |-> [success |-> FALSE, error |-> IoErrorOf(r)]]>>
            /\ Called(r, "rmSync")
            /\ ~Threw(r, "rmSync") => ~WorkspaceOnDisk(r)

C16_Witness ==
    \E r \in Requests :
        /\ Done(r) /\ Exited(r, 0) /\ child[r].image = "sketch.ino.hex"
        /\ Threw(r, "readFileSync")
        /\ res[r][1].status = 500 /\ ~res[r][1].body.success
        /\ Called(r, "rmSync") /\ ~Threw(r, "rmSync") /\ ~WorkspaceOnDisk(r)

\* C17: a removal that throws does not change the result.  Two requests with the same
\* body that went the same way up to the response (same calls, same throws, same
\* toolchain outcome) got the same status and the same kind of body, and the very same
\* response when its texts name no workspace path, whether or not the removal threw
\* for either; a removal that throws is followed by console.error and nothing else.
C17_CleanupFailureSwallowed ==
    /\ \A r \in Requests, q \in Requests :
           /\ Done(r) /\ Done(q) /\ Validated(r) /\ Validated(q)
           /\ req[r] = req[q] /\ LogToResponse(r) = LogToResponse(q)
           /\ SameToolchainOutcome(r, q)
           => /\ Len(res[r]) = 1 /\ Len(res[q]) = 1
              /\ res[r][1].status = res[q][1].status
              /\ DOMAIN res[r][1].body = DOMAIN res[q][1].body
              /\ res[r][1].body.success = res[q][1].body.success
              /\ HexOf(res[r][1].body) = HexOf(res[q][1].body)
              /\ SizeOf(res[r][1].body) = SizeOf(res[q][1].body)
              /\ ~IoFault(r) /\ CombinedOf(r) # "" => res[r] = res[q]
    /\ \A r \in Requests :
           Done(r) /\ Validated(r) =>
               LogAfterResponse(r)
                   = IF Threw(r, "rmSync") THEN <<"rmSync", "throw", "console.error">>
                     ELSE <<"rmSync">>

C17_Witness ==
    \E r \in Requests, q \in Requests :
        /\ Done(r) /\ Done(q) /\ req[r] = req[q] /\ SameToolchainOutcome(r, q)
        /\ Exited(r, 1) /\ CombinedOf(r) # ""
        /\ Threw(r, "rmSync") /\ WorkspaceOnDisk(r)
        /\ ~Threw(q, "rmSync") /\ ~WorkspaceOnDisk(q)
        /\ res[r] = res[q]

\* C18: the subprocess of every request is the binary itself, started without a shell,
\* and its argument vector is "--config-file", <path of the configuration file> and
\* then the handler's arguments in their order when the configuration file is on
\* disk, and the handler's arguments alone when it is not; the source text is in no
\* argument.
C18_ArgumentVector ==
    \A r \in Requests :
        child[r].state # "none" =>
            LET ws == "/tmp/arduino-builds/" \o buildId[r]
                args == <<"compile", "--fqbn", req[r].fqbn.v, "--output-dir",
                          ws \o "/output", ws \o "/sketch">>
            IN  /\ child[r].file = "/app/bin/arduino-cli"
                /\ ~child[r].shell
                /\ cfgExists =>
                       child[r].argv = <<"--config-file", "/app/.arduino-cli.yaml">> \o args
                /\ ~cfgExists => child[r].argv = args
                /\ \A i \in 1..Len(child[r].argv) : child[r].argv[i] # req[r].code.v

C18_Witness ==
    \E r \in Requests :
        /\ cfgExists /\ child[r].state = "running"
        /\ Len(child[r].argv) = 8
        /\ child[r].argv[1] = "--config-file" /\ child[r].argv[3] = "compile"

\* C19: a request is answered at most once while its handler runs and exactly once when
\* the handler has completed, which it has once the subprocess callback has run; the
\* handler reaches exactly one of the outcomes rejected, compile failure, image
\* missing, success and internal error, and the response tells that outcome.
C19_ExactlyOneResponse ==
    \A r \in Requests :
        /\ Len(res[r]) = Responses(r)
        /\ ~Done(r) => Len(res[r]) = 0
        /\ child[r].state = "closed" => Done(r)
        /\ Done(r) =>
               /\ Len(res[r]) = 1
               /\ OutcomesOf(r) = {OutcomeTold(res[r][1])}

C19_Witness ==
    \E r \in Requests, q \in Requests :
        /\ Done(r) /\ child[r].state = "closed" /\ Len(res[r]) = 1
        /\ OutcomesOf(r) = {"ArtifactMissing"}
        /\ Done(q) /\ Len(res[q]) = 1 /\ OutcomesOf(q) = {"InternalError"}

\* C20: every response with success false carries an error string that is not empty;
\* when the toolchain invocation failed with empty combined output, output is the
\* failure's own message and error is that message as extractErrorMessage returns it;
\* and extractErrorMessage returns no empty string for any non-empty text the handler
\* can give it.
C20_ErrorNeverEmpty ==
    /\ \A r \in Requests :
           Done(r) =>
               /\ ~res[r][1].body.success => Len(res[r][1].body.error) > 0
               /\ Threw(r, "execFile") /\ CombinedOf(r) = "" =>
                      LET message == "Command failed: /app/bin/arduino-cli "
                                         \o Join(child[r].argv, " ") \o "\n"
                      IN  /\ res[r][1].body.output = message
                          /\ res[r][1].body.error = Substring(message, 0, 800)
    /\ \A x \in ErrorTexts : x # "" => ErrorSummary[x] # ""

C20_Witness ==
    \E r \in Requests :
        /\ Done(r) /\ TimedOut(r) /\ CombinedOf(r) = ""
        /\ ~res[r][1].body.success
        /\ Len(res[r][1].body.error) > 0
        /\ res[r][1].body.output = res[r][1].body.error

===========================================================================
